---- MODULE Spec2Model ----
(***************************************************************************)
(* Server side of the research service: the research and history routes,   *)
(* the three pipelines, the result cache and the persistence tables.       *)
(*                                                                         *)
(* One step of the model is one piece of handler code between two awaits:  *)
(* the awaited call (a database statement, an LLM call, a search) takes    *)
(* effect or fails, and the handler runs on to its next await.  Requests   *)
(* interleave at these points, as they do on the Node event loop.          *)
(* Time is counted in minutes.                                             *)
(***************************************************************************)
EXTENDS Integers, Sequences, FiniteSets, TLC

\* ------------------------------------------------------------- bounds
\* Requests received in one behaviour when they may overlap.
MaxRequests == 2
\* Requests received in one behaviour when they are handled one at a time.
MaxSerialRequests == 3
\* Requests being handled at the same time.
MaxInFlight == 2
\* Awaited calls (database statements, LLM calls) that fail in one behaviour.
MaxFaults == 2
\* Sweep intervals the clock may advance.
MaxTicks == 7
\* Sources a search may return.
MaxSources == 1
\* A limiter under test: rateLimit(ProbeMax, ProbeWindow), the window in
\* minutes, the requests sent to it and the minutes its clock may advance.
ProbeMax == 2
ProbeWindow == 2
MaxProbes == 5
MaxMinutes == 6
\* Requests one address sends within one limiter window.
MaxHits == 21
\* Searches of one deep run, and results of one search.
MaxBatches == 2
MaxResults == 2
MaxSubQuestions == 5
MaxLiveRequests == 2
MaxStreams == 2

\* ---------------------------------------------------------- constants
\* The cache sweep interval, in minutes.
SweepMin == 5
\* TTL by mode, in minutes.
TTLQuick == 15
TTLStandard == 20
TTLDeep == 30
\* The limiter's sweep drops records older than 300000 ms.
StaleMin == 5
\* The limiters mounted on the research and history routers, per minute.
ResearchLimit == 20
HistoryLimit == 60
WindowMin == 1

\* The requests being handled, and the sessions of a behaviour (each request
\* creates at most one).
Handlers == 1..MaxInFlight
SessionIds == 1..(IF MaxRequests > MaxSerialRequests THEN MaxRequests ELSE MaxSerialRequests)
NoSession == 0

ALLOWED_MODES == {"quick", "standard", "deep"}

\* Request bodies: the query as typed (characters), the mode possibly omitted.
RawQueries == {<<"a", "b", "c">>, <<" ", "a", "b", "c">>, <<"a", "b", "c", " ">>}
RawModes == ALLOWED_MODES \cup {""}

\* White space as trim() and \s see it (the characters the model uses).
IsSpace(c) == c \in {" ", "\t", "\n"}

RECURSIVE TrimStart(_)
TrimStart(s) ==
    IF s # <<>> /\ IsSpace(Head(s)) THEN TrimStart(Tail(s)) ELSE s

RECURSIVE TrimEnd(_)
TrimEnd(s) ==
    IF s # <<>> /\ IsSpace(s[Len(s)]) THEN TrimEnd(SubSeq(s, 1, Len(s) - 1)) ELSE s

\* String.prototype.trim
Trim(s) == TrimEnd(TrimStart(s))

\* validateResearchInput's sanitised body: the trimmed query, the mode defaulted.
SanitizedQuery(raw) == Trim(raw)
SanitizedMode(mode) == IF mode = "" THEN "standard" ELSE mode

Queries == {SanitizedQuery(r) : r \in RawQueries}

MIN_QUERY_LENGTH == 3
MAX_QUERY_LENGTH == 2000

\* Letters, for the i flag and \w.
UpperCase ==
    <<"A", "B", "C", "D", "E", "F", "G", "H", "I", "J", "K", "L", "M",
      "N", "O", "P", "Q", "R", "S", "T", "U", "V", "W", "X", "Y", "Z">>
LowerCase ==
    <<"a", "b", "c", "d", "e", "f", "g", "h", "i", "j", "k", "l", "m",
      "n", "o", "p", "q", "r", "s", "t", "u", "v", "w", "x", "y", "z">>
Digits == {"0", "1", "2", "3", "4", "5", "6", "7", "8", "9"}

Lower(c) ==
    IF \E i \in 1..26 : UpperCase[i] = c
    THEN LowerCase[CHOOSE i \in 1..26 : UpperCase[i] = c]
    ELSE c

\* \w
IsWord(c) == (\E i \in 1..26 : LowerCase[i] = Lower(c)) \/ c \in Digits \/ c = "_"

\* The literal lit, case-insensitively, at position i of s.
LiteralAt(s, i, lit) ==
    /\ i + Len(lit) - 1 <= Len(s)
    /\ \A k \in 1..Len(lit) : Lower(s[i + k - 1]) = lit[k]

\* /<script\b/i
MatchesScript(s) ==
    \E i \in 1..Len(s) :
        /\ LiteralAt(s, i, <<"<", "s", "c", "r", "i", "p", "t">>)
        /\ (i + 7 > Len(s) \/ ~IsWord(s[i + 7]))

\* /javascript:/i
MatchesJavascript(s) ==
    \E i \in 1..Len(s) :
        LiteralAt(s, i, <<"j", "a", "v", "a", "s", "c", "r", "i", "p", "t", ":">>)

\* /on\w+\s*=/i : "on", word characters up to j, white space, "=" at k.
MatchesHandler(s) ==
    \E i \in 1..Len(s) :
        /\ LiteralAt(s, i, <<"o", "n">>)
        /\ \E j \in (i + 2)..Len(s), k \in (i + 3)..Len(s) :
             /\ j < k
             /\ \A x \in (i + 2)..j : IsWord(s[x])
             /\ \A x \in (j + 1)..(k - 1) : IsSpace(s[x])
             /\ s[k] = "="

\* DANGEROUS_PATTERNS, some pattern.test(trimmed)
DANGEROUS_PATTERNS(s) == MatchesScript(s) \/ MatchesJavascript(s) \/ MatchesHandler(s)

\* A JSON value of a request body: its type, its characters when it is the
\* query string, its text when it is the mode, its number.
JsUndefined == [type |-> "undefined", chars |-> <<>>, text |-> "", num |-> 0]
JsNumber(n) == [type |-> "number", chars |-> <<>>, text |-> "", num |-> n]
JsQuery(cs) == [type |-> "string", chars |-> cs, text |-> "", num |-> 0]
JsMode(t) == [type |-> "string", chars |-> <<>>, text |-> t, num |-> 0]
JsNaN == [type |-> "nan", chars |-> <<>>, text |-> "", num |-> 0]

\* !v for the values above.
Falsy(v) ==
    \/ v.type = "undefined"
    \/ v.type = "nan"
    \/ v.type = "number" /\ v.num = 0
    \/ v.type = "string" /\ v.chars = <<>> /\ v.text = ""

\* validateResearchInput(req, res, next) on req.body = {query, mode}: 400, or
\* next() with the sanitised body.
validateResearchInput(query, mode) ==
    LET trimmed == Trim(query.chars)
        reject == [code |-> 400, query |-> <<>>, mode |-> ""]
    IN  IF Falsy(query) \/ query.type # "string" THEN reject
        ELSE IF Len(trimmed) < MIN_QUERY_LENGTH THEN reject
        ELSE IF Len(trimmed) > MAX_QUERY_LENGTH THEN reject
        ELSE IF DANGEROUS_PATTERNS(trimmed) THEN reject
        ELSE IF ~Falsy(mode) /\ ~(mode.type = "string" /\ mode.text \in ALLOWED_MODES) THEN reject
        ELSE [code |-> 200, query |-> SanitizedQuery(query.chars),
              mode |-> SanitizedMode(IF Falsy(mode) THEN "" ELSE mode.text)]
NoQuery == <<>>

\* ---------------------------------------------------------------- cache
Keys == Queries \X ALLOWED_MODES

\* The payload a pipeline run produced: the session it ran for and the report
\* text, which is named by the request that generated it.
NoData == [sessionId |-> NoSession, report |-> 0]
NoEntry == [data |-> NoData, expiresAt |-> -1]

\* A table that gives every mode the quick TTL.
TTL_flat(mode) == TTLQuick

TTL(mode) ==
    CASE mode = "quick" -> TTLQuick
      [] mode = "standard" -> TTLStandard
      [] mode = "deep" -> TTLDeep
      [] OTHER -> TTLStandard

\* The fingerprint of `${query}::${mode}`: distinct pairs give distinct keys.
makeKey(query, mode) == <<query, mode>>

\* A read that renews the entry it returns (a sliding expiry).
cacheGet_sliding(st, query, mode, t) ==
    LET key == <<query, mode>>
    IN  IF st[key] = NoEntry \/ t > st[key].expiresAt
        THEN [data |-> NoData, store |-> [st EXCEPT ![key] = NoEntry]]
        ELSE [data |-> st[key].data,
              store |-> [st EXCEPT ![key].expiresAt = t + TTLStandard]]

\* cacheGet at time t: the data returned (NoData for null) and the store after.
cacheGet(st, query, mode, t) ==
    LET key == makeKey(query, mode)
        entry == st[key]
    IN  IF entry = NoEntry
        THEN [data |-> NoData, store |-> st]
        ELSE IF t > entry.expiresAt
             THEN [data |-> NoData, store |-> [st EXCEPT ![key] = NoEntry]]
             ELSE [data |-> entry.data, store |-> st]

cacheSet(st, query, mode, data, t) ==
    [st EXCEPT ![makeKey(query, mode)] = [data |-> data, expiresAt |-> t + TTL(mode)]]

\* A sweep that also removes the entries expiring at this very moment.
cleanup_eager(st, t) ==
    [k \in DOMAIN st |-> IF st[k] # NoEntry /\ t >= st[k].expiresAt THEN NoEntry ELSE st[k]]

cleanup(st, t) ==
    [k \in Keys |-> IF st[k] # NoEntry /\ t > st[k].expiresAt THEN NoEntry ELSE st[k]]

\* --------------------------------------------------------- rate limiter
\* req.ip of the clients.
Addresses == {"a1", "a2"}

\* windows.get(key) of a key the Map does not hold.
NoRecord == [count |-> 0, start |-> -1]

\* A limiter whose expired window is reopened without moving its start.
rateLimit_stale(ws, key, t, maxRequests, windowMs) ==
    IF ws[key].count = 0 \/ t - ws[key].start > windowMs
    THEN [pass |-> TRUE,
          windows |-> [ws EXCEPT ![key] = [count |-> 1,
                                           start |-> IF ws[key].count = 0 THEN t ELSE @.start]]]
    ELSE [pass |-> ws[key].count < maxRequests,
          windows |-> [ws EXCEPT ![key].count = @ + 1]]

\* The middleware rateLimit(maxRequests, windowMs) returns, run at time t for
\* a request from key: whether next() is called (else 429) and the Map after.
rateLimit(ws, key, t, maxRequests, windowMs) ==
    IF ws[key] = NoRecord
    THEN [pass |-> TRUE, windows |-> [ws EXCEPT ![key] = [count |-> 1, start |-> t]]]
    ELSE IF t - ws[key].start > windowMs
    THEN [pass |-> TRUE, windows |-> [ws EXCEPT ![key] = [count |-> 1, start |-> t]]]
    ELSE LET count == ws[key].count + 1
         IN  [pass |-> ~(count > maxRequests),
              windows |-> [ws EXCEPT ![key].count = count]]

\* The limiter's own sweep: records older than five minutes are deleted.
sweepWindows(ws, t) ==
    [k \in DOMAIN ws |-> IF ws[k] # NoRecord /\ t - ws[k].start > StaleMin
                         THEN NoRecord ELSE ws[k]]

\* ------------------------------------------------------- deep pipeline
PhaseName ==
    <<"query_analysis", "source_discovery", "content_extraction",
      "cross_validation", "structured_synthesis", "citation_linking">>
EntryProgress == <<5, 20, 35, 55, 70, 90>>
ExitProgress == <<15, 30, 50, 65, 85, 100>>

\* ---------------------------------------------------------------- state
VARIABLES
    sessions,   \* research_sessions: id -> row, status "absent" when no row
    nextId,     \* the next id gen_random_uuid() hands out
    phases,     \* research_phases: session id -> phase names in insertion order
    reports,    \* reports: session id -> the rows in insertion order, each
                \* named by the request that wrote it
    errors,     \* error_logs: session id (0 for NULL) -> number of rows
    store,      \* the cache's Map
    now,        \* Date.now(), in minutes
    req,        \* the requests in hand: handler -> its position and locals
    arrivals,   \* the requests still to arrive
    faults,     \* the awaited calls that have failed so far
    completedAt, \* key -> when a run for it last completed and was cached (-1: never)
    windows,    \* the rate limiter's Map: address -> {count, start}
    seen,       \* route -> the requests of the current window that took it
    log,        \* the requests a limiter under test has answered, in order
    last        \* the answer of the middleware chain to the latest request

\* What the middleware in front of the handlers keeps.
admission == <<windows, seen, log, last>>

vars == <<sessions, nextId, phases, reports, errors, store, now, req, arrivals, faults,
          completedAt, admission>>

NoRow == [status |-> "absent", query |-> NoQuery, mode |-> "none"]

\* A handler: rid numbers its request, pc is the await it stands at, ph, srcs
\* and ins are executeDeep's phase, allSources.length and extractedInsights
\* being non-empty; wire is what the open connection has carried.
Idle ==
    [kind |-> "none", rid |-> 0, pc |-> "idle", q |-> NoQuery, m |-> "none",
     sid |-> NoSession, ph |-> 0, srcs |-> 0, ins |-> FALSE,
     aborted |-> FALSE, wire |-> <<>>, ended |-> FALSE,
     resp |-> "none", data |-> NoData, llm |-> 0, srch |-> 0, esid |-> NoSession]

\* The routes a limiter is mounted in front of: POST /research, the GETs of
\* the research router, the history router.
Routes == {"post", "get", "history"}
NoAnswer == [route |-> "none", code |-> 0]

\* The bodies offered to the validator: queries at the length limits, with
\* white space around them, with and without the patterns, and not strings.
Pad(n) == [i \in 1..n |-> "x"]
Text ==
    {Pad(0), Pad(2), Pad(3), Pad(4), Pad(MAX_QUERY_LENGTH - 1), Pad(MAX_QUERY_LENGTH),
     Pad(MAX_QUERY_LENGTH + 1),
     <<" ", "a", "b", " ">>, <<" ", "a", "b", "c", "\n">>, <<"\t", "a", "b", "c", "d">>,
     <<" ">> \o Pad(MAX_QUERY_LENGTH) \o <<" ">>,
     <<" ", " ", " ", " ">>,
     <<"<", "s", "c", "r", "i", "p", "t", ">">>,
     <<"a", "<", "S", "c", "R", "i", "p", "t">>,
     <<"<", "s", "c", "r", "i", "p", "t", "s">>,
     <<"J", "a", "v", "a", "S", "c", "r", "i", "p", "t", ":", "x">>,
     <<"j", "a", "v", "a", "s", "c", "r", "i", "p", "t">>,
     <<"o", "n", "c", "l", "i", "c", "k", "=">>,
     <<"x", " ", "O", "N", "l", "o", "a", "d", " ", " ", "=", "1">>,
     <<"o", "n", " ", "=", "1">>,
     <<"o", "n", "l", "i", "n", "e">>,
     <<"c", "o", "n", "_", "1", "=", "2">>}
BodyQueries == {JsQuery(cs) : cs \in Text} \cup {JsUndefined, JsNumber(12345), JsNumber(0)}
BodyModes ==
    {JsMode(t) : t \in ALLOWED_MODES \cup {"", "fast", "Quick", "undefined"}}
        \cup {JsUndefined, JsNumber(0), JsNumber(7)}

\* The server starts with an empty database, an empty cache and no request
\* in hand; n requests are to arrive.
Quiet(n) ==
    /\ sessions = [s \in SessionIds |-> NoRow]
    /\ nextId = 1
    /\ phases = [s \in SessionIds |-> <<>>]
    /\ reports = [s \in SessionIds |-> <<>>]
    /\ errors = [s \in {NoSession} \cup SessionIds |-> 0]
    /\ store = [k \in Keys |-> NoEntry]
    /\ now = 0
    /\ req = [h \in Handlers |-> Idle]
    /\ arrivals = n
    /\ faults = 0
    /\ completedAt = [k \in Keys |-> -1]
    /\ windows = [a \in Addresses |-> NoRecord]
    /\ seen = [r \in Routes |-> 0]
    /\ log = <<>>

Start(n) == Quiet(n) /\ last = NoAnswer

Init == Start(MaxRequests)
InitSerial == Start(MaxSerialRequests)

\* The outcomes of an awaited call: it returns (TRUE) or throws (FALSE).
Outcomes == IF faults < MaxFaults THEN BOOLEAN ELSE {TRUE}
Returns(ok) == faults' = IF ok THEN faults ELSE faults + 1

Exists(s) == sessions[s].status # "absent"

Free(h) == req[h].pc \in {"idle", "done"}

\* A request is taken by the lowest free handler; what the handler's last
\* request left behind is dropped.
CanStart(h) ==
    /\ arrivals > 0
    /\ Free(h)
    /\ \A g \in Handlers : g < h => ~Free(g)

Fresh(kind) == [Idle EXCEPT !.kind = kind, !.rid = arrivals]

\* A handler that has returned: its locals are gone, what it sent remains.
finish(r) ==
    [r EXCEPT !.pc = "done", !.ph = 0, !.srcs = 0, !.ins = FALSE, !.esid = NoSession]

\* ------------------------------------------------------- error handling
\* errorHandler: the error log is written fire-and-forget under
\* req.body.sessionId || req.params.id || null, and 500 is answered.
errorHandler(r, sessionId) ==
    [r EXCEPT !.pc = "e_log", !.resp = "error500", !.esid = sessionId,
              !.ph = 0, !.srcs = 0, !.ins = FALSE]

\* logError's INSERT: the row is written when the statement succeeds (the
\* session it names must exist); a failure is swallowed.
logError(errs, sessionId, ok) ==
    IF ok /\ (sessionId = NoSession \/ Exists(sessionId))
    THEN [errs EXCEPT ![sessionId] = @ + 1]
    ELSE errs

\* The pending error-log insert of errorHandler.
ErrorLog(h) ==
    /\ req[h].pc = "e_log"
    /\ \E ok \in Outcomes :
         /\ Returns(ok)
         /\ errors' = logError(errors, req[h].esid, ok)
    /\ req' = [req EXCEPT ![h] = finish(@)]
    /\ UNCHANGED <<sessions, nextId, phases, reports, store, now, arrivals, completedAt, admission>>

\* ------------------------------------------------------ POST /research
\* The handler up to its first await: the cache lookup and, on a miss, the
\* session INSERT being issued.  A request body carries query and mode only.
postHandlerEnters(h, query, m) ==
    /\ CanStart(h)
    /\ arrivals' = arrivals - 1
    /\ LET got == cacheGet(store, query, m, now)
       IN  /\ store' = got.store
           /\ IF got.data # NoData
              THEN req' = [req EXCEPT ![h] =
                       finish([Fresh("post") EXCEPT !.q = query, !.m = m,
                                                    !.resp = "cached", !.data = got.data])]
              ELSE req' = [req EXCEPT ![h] =
                       [Fresh("post") EXCEPT !.pc = "p_ins", !.q = query, !.m = m]]
    /\ UNCHANGED <<sessions, nextId, phases, reports, errors, now, faults, completedAt>>

\* POST /research for a body that has passed the limiter and the validator.
PostStart(h, raw, mode) ==
    /\ postHandlerEnters(h, SanitizedQuery(raw), SanitizedMode(mode))
    /\ UNCHANGED admission

\* INSERT INTO research_sessions returns (or throws); deep answers at once,
\* quick and standard enter their pipeline: executeQuick issues its LLM call,
\* executeStandard its search.
PostInsert(h) ==
    /\ req[h].pc = "p_ins"
    /\ \E ok \in Outcomes :
         /\ Returns(ok)
         /\ IF ok
            THEN /\ sessions' = [sessions EXCEPT ![nextId] =
                        [status |-> "running", query |-> req[h].q, mode |-> req[h].m]]
                 /\ nextId' = nextId + 1
                 /\ req' = [req EXCEPT ![h] =
                        IF req[h].m = "deep"
                        THEN finish([@ EXCEPT !.sid = nextId, !.resp = "deep",
                                              !.data = [sessionId |-> nextId, report |-> 0]])
                        ELSE IF req[h].m = "quick"
                        THEN [@ EXCEPT !.pc = "q_run", !.sid = nextId, !.llm = @ + 1]
                        ELSE [@ EXCEPT !.pc = "s_disc", !.sid = nextId, !.srch = @ + 1]]
            ELSE /\ req' = [req EXCEPT ![h] = errorHandler(@, NoSession)]
                 /\ UNCHANGED <<sessions, nextId>>
    /\ UNCHANGED <<phases, reports, errors, store, now, arrivals, completedAt, admission>>

\* An INSERT into a table that references research_sessions: the row goes in
\* when the statement succeeds, which needs the session row to exist.
\* A table whose foreign key is not enforced.
InsertOk_unchecked(s, ok) == ok

InsertOk(s, ok) == ok /\ Exists(s)

\* INSERT INTO research_phases
appendPhase(ps, s, name) == [ps EXCEPT ![s] = Append(@, name)]

\* INSERT INTO reports; the row is named by the request that wrote it.
writeReport(rs, s, rid) == [rs EXCEPT ![s] = Append(@, rid)]

\* executeQuick: the LLM call returns (or fails after its retries) and the
\* quick_synthesis row is inserted; the handler then issues the report INSERT.
\* ok says that both awaited calls returned.
ExecuteQuick(h) ==
    /\ req[h].pc = "q_run"
    /\ \E ok \in Outcomes :
         /\ Returns(ok)
         /\ IF InsertOk(req[h].sid, ok)
            THEN /\ phases' = appendPhase(phases, req[h].sid, "quick_synthesis")
                 /\ req' = [req EXCEPT ![h].pc = "p_rep"]
            ELSE /\ req' = [req EXCEPT ![h] = errorHandler(@, NoSession)]
                 /\ UNCHANGED phases
    /\ UNCHANGED <<sessions, nextId, reports, errors, store, now, arrivals, completedAt, admission>>

\* executeStandard, phase 1: searchWeb returns its sources (it never throws),
\* the source_discovery row is inserted and the LLM call is issued.
ExecuteStandardDiscovery(h) ==
    /\ req[h].pc = "s_disc"
    /\ \E ok \in Outcomes, n \in 0..MaxSources :
         /\ Returns(ok)
         /\ IF InsertOk(req[h].sid, ok)
            THEN /\ phases' = appendPhase(phases, req[h].sid, "source_discovery")
                 /\ req' = [req EXCEPT ![h].pc = "s_synth", ![h].srcs = n, ![h].llm = @ + 1]
            ELSE /\ req' = [req EXCEPT ![h] = errorHandler(@, NoSession)]
                 /\ UNCHANGED phases
    /\ UNCHANGED <<sessions, nextId, reports, errors, store, now, arrivals, completedAt, admission>>

\* executeStandard, phase 2: the LLM call returns (or fails) and the
\* structured_synthesis row is inserted; the handler issues the report INSERT.
ExecuteStandardSynthesis(h) ==
    /\ req[h].pc = "s_synth"
    /\ \E ok \in Outcomes :
         /\ Returns(ok)
         /\ IF InsertOk(req[h].sid, ok)
            THEN /\ phases' = appendPhase(phases, req[h].sid, "structured_synthesis")
                 /\ req' = [req EXCEPT ![h].pc = "p_rep"]
            ELSE /\ req' = [req EXCEPT ![h] = errorHandler(@, NoSession)]
                 /\ UNCHANGED phases
    /\ UNCHANGED <<sessions, nextId, reports, errors, store, now, arrivals, completedAt, admission>>

\* INSERT INTO reports, then the status UPDATE is issued.
PostSaveReport(h) ==
    /\ req[h].pc = "p_rep"
    /\ \E ok \in Outcomes :
         /\ Returns(ok)
         /\ IF InsertOk(req[h].sid, ok)
            THEN /\ reports' = writeReport(reports, req[h].sid, req[h].rid)
                 /\ req' = [req EXCEPT ![h].pc = "p_upd"]
            ELSE /\ req' = [req EXCEPT ![h] = errorHandler(@, NoSession)]
                 /\ UNCHANGED reports
    /\ UNCHANGED <<sessions, nextId, phases, errors, store, now, arrivals, completedAt, admission>>

\* UPDATE research_sessions SET status = 'completed' (no row: nothing changes).
completeSession(ss, s) ==
    IF ss[s].status # "absent" THEN [ss EXCEPT ![s].status = "completed"] ELSE ss

\* UPDATE research_sessions SET status = 'failed'.
failSession(ss, s) ==
    IF ss[s].status # "absent" THEN [ss EXCEPT ![s].status = "failed"] ELSE ss

\* A cache insert that leaves an entry already stored for the key in place.
postCacheSet_firstWins(st, query, mode, data, t) ==
    IF st[makeKey(query, mode)] # NoEntry THEN st ELSE cacheSet(st, query, mode, data, t)

\* The cache insert that follows the status UPDATE of the POST handler.
postCacheSet(st, query, mode, data, t) == cacheSet(st, query, mode, data, t)

\* The status UPDATE, the cache insert and the response.
PostComplete(h) ==
    /\ req[h].pc = "p_upd"
    /\ \E ok \in Outcomes :
         /\ Returns(ok)
         /\ IF ok
            THEN LET responseData == [sessionId |-> req[h].sid, report |-> req[h].rid]
                 IN  /\ sessions' = completeSession(sessions, req[h].sid)
                     /\ store' = postCacheSet(store, req[h].q, req[h].m, responseData, now)
                     /\ completedAt' = [completedAt EXCEPT ![makeKey(req[h].q, req[h].m)] = now]
                     /\ req' = [req EXCEPT ![h] =
                            finish([@ EXCEPT !.resp = "result", !.data = responseData])]
            ELSE /\ req' = [req EXCEPT ![h] = errorHandler(@, NoSession)]
                 /\ UNCHANGED <<sessions, store, completedAt>>
    /\ UNCHANGED <<nextId, phases, reports, errors, now, arrivals, admission>>

\* ------------------------------------------- GET /research/:id/stream
\* sendEvent(event, data): an event on the wire is its name and what it
\* carries (the progress of a phase event, the report of a complete event).
sendEvent(wire, event, data) == Append(wire, <<event, data>>)

\* The progress callback: the phase event is dropped once aborted.
emit(r, progress) ==
    IF r.aborted THEN r ELSE [r EXCEPT !.wire = sendEvent(@, "phase", progress)]

\* The status check of the stream handler: which sessions get their stored
\* report as JSON rather than a pipeline run.
answersStored(status) == status = "completed"

\* The session SELECT returns: 404, the report SELECT is issued, or the stream
\* is opened and executeDeep runs to its first await.  When the SELECT throws,
\* the handler's promise rejects and nothing is answered.
StreamStart(h, id) ==
    /\ CanStart(h)
    /\ arrivals' = arrivals - 1
    /\ \E ok \in Outcomes :
         /\ Returns(ok)
         /\ LET r == [Fresh("stream") EXCEPT !.sid = id]
            IN  req' = [req EXCEPT ![h] =
                    IF ~ok THEN finish(r)
                    ELSE IF ~Exists(id) THEN finish([r EXCEPT !.resp = "notfound"])
                    ELSE IF answersStored(sessions[id].status) THEN [r EXCEPT !.pc = "t_selrep"]
                    ELSE [r EXCEPT !.pc = "d_phase", !.ph = 1, !.q = sessions[id].query,
                                   !.m = sessions[id].mode, !.llm = 1,
                                   !.wire = sendEvent(sendEvent(<<>>, "phase", 0),
                                                       "phase", EntryProgress[1])]]
    /\ UNCHANGED <<sessions, nextId, phases, reports, errors, store, now, completedAt, admission>>

\* rows[0]?.content of the report SELECT: the first row written, if any.
firstReport(rows) == IF rows = <<>> THEN 0 ELSE Head(rows)

\* The already-completed branch: the report SELECT and the JSON answer.
StreamReport(h) ==
    /\ req[h].pc = "t_selrep"
    /\ \E ok \in Outcomes :
         /\ Returns(ok)
         /\ req' = [req EXCEPT ![h] =
                IF ok
                THEN finish([@ EXCEPT !.resp = "report",
                                      !.data = [sessionId |-> req[h].sid,
                                                report |-> firstReport(reports[req[h].sid])]])
                ELSE finish(@)]
    /\ UNCHANGED <<sessions, nextId, phases, reports, errors, store, now, arrivals, completedAt, admission>>

\* req.on('close'): the client goes away while the stream is open.  The wire
\* of a connection is tracked while it is open.
ClientClose(h) ==
    /\ req[h].kind = "stream"
    /\ req[h].pc \in {"d_phase", "t_rep", "t_upd", "c_log", "c_upd"}
    /\ ~req[h].aborted
    /\ req' = [req EXCEPT ![h].aborted = TRUE, ![h].wire = <<>>]
    /\ UNCHANGED <<sessions, nextId, phases, reports, errors, store, now, arrivals, faults, completedAt, admission>>

\* The stream handler's catch block is entered: logError's INSERT is issued.
catch(r) == [r EXCEPT !.pc = "c_log", !.ph = 0, !.srcs = 0, !.ins = FALSE]

\* A pipeline that makes the LLM call of every phase that has one.
CallsLlm_always(k, r) == k \notin {2, 6}

\* Whether phase k of executeDeep makes an LLM call (phase 2 searches).
CallsLlm(k, r) ==
    CASE k = 2 -> FALSE
      [] k = 3 -> r.srcs > 0
      [] k = 4 -> r.ins
      [] k = 6 -> FALSE
      [] OTHER -> TRUE

\* executeDeep enters phase k: the entry event, and the phase's call is issued.
enterPhase(r, k) ==
    LET e == emit(r, EntryProgress[k])
    IN  [e EXCEPT !.ph = k,
                  !.llm = IF CallsLlm(k, r) THEN @ + 1 ELSE @,
                  !.srch = IF k = 2 THEN @ + 1 ELSE @]

\* What the stream handler does when executeDeep has returned: it stops if
\* the client has gone, and else issues the report INSERT.
afterDeep(r) == IF r.aborted THEN finish(r) ELSE [r EXCEPT !.pc = "t_rep"]

\* executeDeep, one phase: the phase's call returns (searchMultiple with n
\* sources in phase 2, chatCompletion in the others, the extraction with
\* content that may be empty), the phase row is inserted, the exit event is
\* emitted and the next phase is entered; after phase 6 executeDeep returns.
\* ok says that every awaited call of the phase returned.
ExecuteDeepPhase(h) ==
    /\ req[h].pc = "d_phase"
    /\ \E ok \in Outcomes, n \in 0..MaxSources, nonEmpty \in BOOLEAN :
         /\ Returns(ok)
         /\ IF InsertOk(req[h].sid, ok)
            THEN /\ phases' = appendPhase(phases, req[h].sid, PhaseName[req[h].ph])
                 /\ LET k == req[h].ph
                        r == [req[h] EXCEPT
                                !.srcs = IF k = 2 THEN n ELSE @,
                                !.ins = IF k = 3 /\ req[h].srcs > 0 THEN nonEmpty ELSE @]
                        e == emit(r, ExitProgress[k])
                    IN  req' = [req EXCEPT ![h] =
                            IF k < 6 THEN enterPhase(e, k + 1) ELSE afterDeep(e)]
            ELSE /\ req' = [req EXCEPT ![h] = catch(@)]
                 /\ UNCHANGED phases
    /\ UNCHANGED <<sessions, nextId, reports, errors, store, now, arrivals, completedAt, admission>>

\* The report INSERT returns and the status UPDATE is issued.
StreamSaveReport(h) ==
    /\ req[h].pc = "t_rep"
    /\ \E ok \in Outcomes :
         /\ Returns(ok)
         /\ IF InsertOk(req[h].sid, ok)
            THEN /\ reports' = writeReport(reports, req[h].sid, req[h].rid)
                 /\ req' = [req EXCEPT ![h].pc = "t_upd"]
            ELSE /\ req' = [req EXCEPT ![h] = catch(@)]
                 /\ UNCHANGED reports
    /\ UNCHANGED <<sessions, nextId, phases, errors, store, now, arrivals, completedAt, admission>>

\* A stream handler that completes without caching its result.
streamCacheSet_dropped(st, query, mode, data, t) == st

\* The cache insert that follows the status UPDATE of the stream handler.
streamCacheSet(st, query, mode, data, t) == cacheSet(st, query, mode, data, t)

\* The status UPDATE returns; the cache insert, the complete event, res.end().
\* A write after the client has gone puts nothing on the wire.
StreamComplete(h) ==
    /\ req[h].pc = "t_upd"
    /\ \E ok \in Outcomes :
         /\ Returns(ok)
         /\ IF ok
            THEN LET payload == [sessionId |-> req[h].sid, report |-> req[h].rid]
                 IN  /\ sessions' = completeSession(sessions, req[h].sid)
                     /\ store' = streamCacheSet(store, req[h].q, req[h].m, payload, now)
                     /\ completedAt' = [completedAt EXCEPT ![makeKey(req[h].q, req[h].m)] = now]
                     /\ req' = [req EXCEPT ![h] =
                            finish([@ EXCEPT !.ended = TRUE, !.data = payload,
                                             !.wire = IF req[h].aborted THEN @
                                                      ELSE sendEvent(@, "complete", req[h].rid)])]
            ELSE /\ req' = [req EXCEPT ![h] = catch(@)]
                 /\ UNCHANGED <<sessions, store, completedAt>>
    /\ UNCHANGED <<nextId, phases, reports, errors, now, arrivals, admission>>

\* catch: logError returns (it never throws) and the failed UPDATE is issued.
StreamCatchLog(h) ==
    /\ req[h].pc = "c_log"
    /\ \E ok \in Outcomes :
         /\ Returns(ok)
         /\ errors' = logError(errors, req[h].sid, ok)
    /\ req' = [req EXCEPT ![h].pc = "c_upd"]
    /\ UNCHANGED <<sessions, nextId, phases, reports, store, now, arrivals, completedAt, admission>>

\* catch: the failed UPDATE returns, then the error event and res.end() unless
\* aborted; when the UPDATE throws, the handler's promise rejects and nothing
\* more is written.
StreamCatchFail(h) ==
    /\ req[h].pc = "c_upd"
    /\ \E ok \in Outcomes :
         /\ Returns(ok)
         /\ IF ok
            THEN /\ sessions' = failSession(sessions, req[h].sid)
                 /\ req' = [req EXCEPT ![h] =
                        IF req[h].aborted THEN finish(@)
                        ELSE finish([@ EXCEPT !.ended = TRUE, !.wire = sendEvent(@, "error", 0)])]
            ELSE /\ req' = [req EXCEPT ![h] = finish(@)]
                 /\ UNCHANGED sessions
    /\ UNCHANGED <<nextId, phases, reports, errors, store, now, arrivals, completedAt, admission>>

\* ------------------------------------------------------ GET /research/:id
\* The session row LEFT JOINed with its reports; rows[0] is answered.
getResearch(id) ==
    IF ~Exists(id) THEN [code |-> 404, status |-> "absent", report |-> 0]
    ELSE [code |-> 200, status |-> sessions[id].status,
          report |-> firstReport(reports[id])]

\* ---------------------------------------------------- DELETE /history/:id
\* ON DELETE CASCADE for phases and reports, SET NULL for error_logs.
DeleteHistory(h, id) ==
    /\ CanStart(h)
    /\ arrivals' = arrivals - 1
    /\ \E ok \in Outcomes :
         /\ Returns(ok)
         /\ LET r == [Fresh("delete") EXCEPT !.sid = id]
            IN  IF ok /\ Exists(id)
                THEN /\ sessions' = [sessions EXCEPT ![id] = NoRow]
                     /\ phases' = [phases EXCEPT ![id] = <<>>]
                     /\ reports' = [reports EXCEPT ![id] = <<>>]
                     /\ errors' = [errors EXCEPT ![NoSession] = @ + errors[id], ![id] = 0]
                     /\ req' = [req EXCEPT ![h] = finish([r EXCEPT !.resp = "deleted"])]
                ELSE /\ req' = [req EXCEPT ![h] =
                            IF ok THEN finish([r EXCEPT !.resp = "notfound"])
                            ELSE errorHandler(r, id)]
                     /\ UNCHANGED <<sessions, phases, reports, errors>>
    /\ UNCHANGED <<nextId, store, now, completedAt, admission>>

\* ------------------------------------------------------ clock and sweep
Tick ==
    /\ now < MaxTicks * SweepMin
    /\ now' = now + SweepMin
    /\ UNCHANGED <<sessions, nextId, phases, reports, errors, store, req, arrivals, faults, completedAt, admission>>

\* setInterval(cleanup, 5 min)
Cleanup ==
    /\ store' = cleanup(store, now)
    /\ UNCHANGED <<sessions, nextId, phases, reports, errors, now, req, arrivals, faults, completedAt, admission>>

\* The ids a client may name: those handed out so far and one unknown.
KnownIds == {s \in SessionIds : s <= nextId}

\* A request arrives and its handler runs to its first await.
Receive(h) ==
    \/ \E raw \in RawQueries, mode \in RawModes : PostStart(h, raw, mode)
    \/ \E id \in KnownIds : StreamStart(h, id)
    \/ \E id \in KnownIds : DeleteHistory(h, id)

\* An awaited call of a request in hand settles, or its client goes away.
Run(h) ==
    \/ PostInsert(h)
    \/ ExecuteQuick(h)
    \/ ExecuteStandardDiscovery(h)
    \/ ExecuteStandardSynthesis(h)
    \/ PostSaveReport(h)
    \/ PostComplete(h)
    \/ ErrorLog(h)
    \/ StreamReport(h)
    \/ ClientClose(h)
    \/ ExecuteDeepPhase(h)
    \/ StreamSaveReport(h)
    \/ StreamComplete(h)
    \/ StreamCatchLog(h)
    \/ StreamCatchFail(h)

\* Requests overlap: up to MaxInFlight are in hand at once.
Next ==
    \/ \E h \in Handlers : Receive(h)
    \/ \E h \in Handlers : Run(h)
    \/ Tick
    \/ Cleanup

Spec == Init /\ [][Next]_vars

\* Each request is answered before the next one arrives.
NextSerial ==
    \/ Receive(1)
    \/ Run(1)
    \/ Tick
    \/ Cleanup

SpecSerial == InitSerial /\ [][NextSerial]_vars

\* The server with every awaited call settling: whenever a request is in
\* hand, its pending LLM, search or database call eventually returns or
\* throws.  Clients need not send anything.
NextLive == Receive(1) \/ Run(1)

SpecLive == Start(MaxLiveRequests) /\ [][NextLive]_vars /\ WF_vars(Run(1))

\* ------------------------------------------- streams of one deep session
\* POST /research has answered for a deep session: its row is there with
\* status running; MaxStreams stream requests for it are to arrive.
InitStreams ==
    /\ sessions = [s \in SessionIds |->
                     IF s = 1 THEN [status |-> "running", query |-> <<"a", "b", "c">>,
                                    mode |-> "deep"]
                     ELSE NoRow]
    /\ nextId = 2
    /\ phases = [s \in SessionIds |-> <<>>]
    /\ reports = [s \in SessionIds |-> <<>>]
    /\ errors = [s \in {NoSession} \cup SessionIds |-> 0]
    /\ store = [k \in Keys |-> NoEntry]
    /\ now = 0
    /\ req = [h \in Handlers |-> Idle]
    /\ arrivals = MaxStreams
    /\ faults = 0
    /\ completedAt = [k \in Keys |-> -1]
    /\ windows = [a \in Addresses |-> NoRecord]
    /\ seen = [r \in Routes |-> 0]
    /\ log = <<>>
    /\ last = NoAnswer

\* The clients of the session open its stream, at once or one after the
\* other, and the pipelines of the open streams run side by side.
NextStreams ==
    \E h \in Handlers :
        \/ StreamStart(h, 1)
        \/ StreamReport(h)
        \/ ClientClose(h)
        \/ ExecuteDeepPhase(h)
        \/ StreamSaveReport(h)
        \/ StreamComplete(h)
        \/ StreamCatchLog(h)
        \/ StreamCatchFail(h)

SpecStreams == InitStreams /\ [][NextStreams]_vars

\* ------------------------------------------------- a limiter under test
\* A request from ip reaches a limiter created by rateLimit(ProbeMax,
\* ProbeWindow) and mounted alone; its answer is logged.
Probe(ip) ==
    /\ Len(log) < MaxProbes
    /\ LET lim == rateLimit(windows, ip, now, ProbeMax, ProbeWindow)
       IN  /\ windows' = lim.windows
           /\ log' = Append(log, [ip |-> ip, at |-> now, pass |-> lim.pass])
           /\ last' = [route |-> "probe", code |-> IF lim.pass THEN 200 ELSE 429]
    /\ UNCHANGED <<sessions, nextId, phases, reports, errors, store, now, req, arrivals,
                   faults, completedAt, seen>>

\* A minute passes.
Elapse ==
    /\ now < MaxMinutes
    /\ now' = now + 1
    /\ UNCHANGED <<sessions, nextId, phases, reports, errors, store, req, arrivals, faults,
                   completedAt, admission>>

\* setInterval(..., 300000) of the limiter.
SweepWindows ==
    /\ windows' = sweepWindows(windows, now)
    /\ UNCHANGED <<sessions, nextId, phases, reports, errors, store, now, req, arrivals,
                   faults, completedAt, seen, log, last>>

NextLimiter ==
    \/ \E ip \in Addresses : Probe(ip)
    \/ Elapse
    \/ SweepWindows

SpecLimiter == Init /\ [][NextLimiter]_vars

\* ------------------------------------------- the routers behind limiters
\* The address whose requests are followed.
Client == "a1"

\* The bodies this client posts: the query is well formed, the mode is one of
\* the allowed ones, one that is not, or left out.
ClientQueries == {JsQuery(<<" ", "a", "b", "c">>)}
ClientModes == {JsMode("quick"), JsMode("fast"), JsUndefined}

\* The client can send one more request in the limiter's window.
CanHit == windows[Client].count < MaxHits

\* The requests of the window so far by route, this one included; a request
\* that opens a window starts the tally afresh.
tally(route) ==
    IF windows[Client] = NoRecord \/ now - windows[Client].start > WindowMin
    THEN [r \in Routes |-> IF r = route THEN 1 ELSE 0]
    ELSE [seen EXCEPT ![route] = @ + 1]

\* A handler that runs whatever the middleware in front of it answered.
callsNext_always(code) == TRUE

\* Express runs the next function of the chain only when the middleware
\* called next(), that is, did not answer itself.
callsNext(code) == code = 200

\* POST /research through router.use(rateLimit(20, 60000)), then
\* validateResearchInput, then the handler up to its first await.
PostResearch(h, query, mode) ==
    /\ CanHit
    /\ LET lim == rateLimit(windows, Client, now, ResearchLimit, WindowMin)
           v == validateResearchInput(query, mode)
           code == IF ~lim.pass THEN 429 ELSE v.code
       IN  /\ windows' = lim.windows
           /\ seen' = tally("post")
           /\ last' = [route |-> "post", code |-> code]
           /\ IF callsNext(code)
              THEN postHandlerEnters(h, Trim(query.chars),
                                        IF v.code = 200 THEN v.mode ELSE "standard")
              ELSE UNCHANGED <<sessions, nextId, phases, reports, errors, store, now, req,
                               arrivals, faults, completedAt>>
    /\ UNCHANGED log

\* GET /research/:id through the research router's limiter; the handler only
\* reads.
GetResearch ==
    /\ CanHit
    /\ LET lim == rateLimit(windows, Client, now, ResearchLimit, WindowMin)
       IN  /\ windows' = lim.windows
           /\ last' = [route |-> "get", code |-> IF lim.pass THEN 200 ELSE 429]
    /\ seen' = tally("get")
    /\ UNCHANGED <<sessions, nextId, phases, reports, errors, store, now, req, arrivals,
                   faults, completedAt, log>>

\* GET /history through router.use(rateLimit(60, 60000)); the handler only
\* reads.
GetHistory ==
    /\ CanHit
    /\ LET lim == rateLimit(windows, Client, now, HistoryLimit, WindowMin)
       IN  /\ windows' = lim.windows
           /\ last' = [route |-> "history", code |-> IF lim.pass THEN 200 ELSE 429]
    /\ seen' = tally("history")
    /\ UNCHANGED <<sessions, nextId, phases, reports, errors, store, now, req, arrivals,
                   faults, completedAt, log>>

NextAdmission ==
    \/ \E h \in Handlers, query \in ClientQueries, mode \in ClientModes :
            PostResearch(h, query, mode)
    \/ GetResearch
    \/ GetHistory

\* One client's requests within one minute.
SpecAdmission == Init /\ [][NextAdmission]_vars

\* ---------------------------------------------------- the validator alone
\* A body {query, mode} is offered to validateResearchInput.
InitValidate ==
    /\ Quiet(0)
    /\ \E query \in BodyQueries, mode \in BodyModes :
         last = [route |-> "offered", code |-> 0, in |-> [query |-> query, mode |-> mode],
                 out |-> [query |-> <<>>, mode |-> ""]]

\* The middleware runs: 400, or the sanitised body goes on.
Validate ==
    /\ last.route = "offered"
    /\ LET v == validateResearchInput(last.in.query, last.in.mode)
       IN  last' = [last EXCEPT !.route = "validated", !.code = v.code,
                                !.out = [query |-> v.query, mode |-> v.mode]]
    /\ UNCHANGED <<sessions, nextId, phases, reports, errors, store, now, req, arrivals,
                   faults, completedAt, windows, seen, log>>

SpecValidate == InitValidate /\ [][Validate]_vars

\* ------------------------------------------------- the history page alone
DigitChars == <<"0", "1", "2", "3", "4", "5", "6", "7", "8", "9">>

\* The decimal text of an integer, as a client writes it into the URL.
RECURSIVE Decimal(_)
Decimal(n) ==
    IF n < 0 THEN <<"-">> \o Decimal(0 - n)
    ELSE IF n < 10 THEN <<DigitChars[n + 1]>>
    ELSE Append(Decimal(n \div 10), DigitChars[(n % 10) + 1])

\* The number a run of digits denotes.
RECURSIVE DigitsValue(_)
DigitsValue(cs) ==
    IF cs = <<>> THEN 0
    ELSE 10 * DigitsValue(SubSeq(cs, 1, Len(cs) - 1))
            + (CHOOSE d \in 0..9 : DigitChars[d + 1] = cs[Len(cs)])

\* parseInt(v): leading white space, an optional sign, then the longest run
\* of digits; NaN when there is no digit (as for undefined).
parseInt(v) ==
    LET cs == IF v.type = "string" THEN TrimStart(v.chars) ELSE <<>>
        signed == cs # <<>> /\ cs[1] \in {"-", "+"}
        body == IF signed THEN Tail(cs) ELSE cs
        run == CHOOSE k \in 0..Len(body) :
                 /\ \A i \in 1..k : body[i] \in Digits
                 /\ k < Len(body) => body[k + 1] \notin Digits
        value == DigitsValue(SubSeq(body, 1, run))
    IN  IF run = 0 THEN JsNaN
        ELSE JsNumber(IF signed /\ cs[1] = "-" THEN 0 - value ELSE value)

Min(a, b) == IF a < b THEN a ELSE b
Max(a, b) == IF a > b THEN a ELSE b

\* The limit and offset GET /history works with and echoes.
page(limit, offset) ==
    LET l == IF Falsy(parseInt(limit)) THEN 50 ELSE parseInt(limit).num
        o == IF Falsy(parseInt(offset)) THEN 0 ELSE parseInt(offset).num
    IN  [limit |-> Min(Max(l, 1), 100), offset |-> Max(o, 0)]

\* The numbers a client asks for.
Asked == {-5, -1, 0, 1, 2, 50, 99, 100, 101, 500}
NotAsked == [given |-> FALSE, n |-> 0]
Params == {NotAsked} \cup {[given |-> TRUE, n |-> n] : n \in Asked}

\* req.query.limit or req.query.offset for what the client asks.
QueryParam(a) == IF a.given THEN JsQuery(Decimal(a.n)) ELSE JsUndefined

\* A GET /history?limit=..&offset=.. arrives.
InitHistory ==
    /\ Quiet(0)
    /\ \E limit \in Params, offset \in Params :
         last = [route |-> "asked", code |-> 0, asked |-> [limit |-> limit, offset |-> offset],
                 out |-> [limit |-> 0, offset |-> 0]]

\* The handler answers with the limit and offset it used.
HistoryPage ==
    /\ last.route = "asked"
    /\ last' = [last EXCEPT !.route = "paged", !.code = 200,
                            !.out = page(QueryParam(last.asked.limit),
                                         QueryParam(last.asked.offset))]
    /\ UNCHANGED <<sessions, nextId, phases, reports, errors, store, now, req, arrivals,
                   faults, completedAt, windows, seen, log>>

SpecHistory == InitHistory /\ [][HistoryPage]_vars

\* ------------------------------------------------ a failing LLM provider
\* chatCompletion makes up to three attempts.
MaxRetries == 3

\* The errors the provider's client throws: an API error carries the HTTP
\* status of the provider's answer (0 stands for no status field: a connection
\* error).  The per-attempt timer and the caller's signal both abort the one
\* controller of the attempt, and the client answers an abort with an error
\* whose name is AbortError or, depending on the client library, Error; cause
\* tells what made the attempt fail.
ProviderErrors ==
    {[name |-> "APIError", status |-> st, cause |-> IF st = 0 THEN "network" ELSE "http"] :
        st \in {0, 400, 401, 403, 404, 408, 429, 500, 502, 503}}
    \cup {[name |-> n, status |-> 0, cause |-> c] :
            n \in {"AbortError", "Error"}, c \in {"timeout", "cancel"}}

\* A wait of the same length after every failed attempt.
backoff_fixed(attempt) == 1000

\* Math.min(1000 * Math.pow(2, attempt - 1), 8000)
backoff(attempt) ==
    IF 1000 * 2 ^ (attempt - 1) < 8000 THEN 1000 * 2 ^ (attempt - 1) ELSE 8000

\* A pipeline of some mode calls chatCompletion.
InitLlm ==
    /\ Quiet(0)
    /\ \E mode \in ALLOWED_MODES :
         last = [route |-> "calling", code |-> 0, mode |-> mode, attempt |-> 1,
                 err |-> [name |-> "none", status |-> 0, cause |-> "none"],
                 error |-> "none", tried |-> <<>>, waits |-> <<>>]

\* An attempt fails: the error is thrown at once when its name is AbortError
\* or its status 400, 401 or 403, and after the last attempt; else the call
\* waits and the next attempt follows.  err is lastError, tried the errors of
\* the attempts made, waits the delays slept.
chatCompletionFails ==
    /\ last.route = "calling"
    /\ \E err \in ProviderErrors :
         last' = IF \/ err.name = "AbortError"
                    \/ err.status \in {401, 400, 403}
                    \/ ~(last.attempt < MaxRetries)
                 THEN [last EXCEPT !.route = "thrown", !.err = err,
                                   !.tried = Append(@, err)]
                 ELSE [last EXCEPT !.attempt = @ + 1, !.err = err,
                                   !.tried = Append(@, err),
                                   !.waits = Append(@, backoff(last.attempt))]
    /\ UNCHANGED <<sessions, nextId, phases, reports, errors, store, now, req, arrivals,
                   faults, completedAt, windows, seen, log>>

\* An attempt returns a completion.
chatCompletionReturns ==
    /\ last.route = "calling"
    /\ last' = [last EXCEPT !.route = "returned"]
    /\ UNCHANGED <<sessions, nextId, phases, reports, errors, store, now, req, arrivals,
                   faults, completedAt, windows, seen, log>>

\* The status errorHandler answers with.
errorStatus(err) == IF err.status # 0 THEN err.status ELSE 500

\* The thrown error reaches the caller: the POST handler passes it to
\* errorHandler, the stream handler's catch block sends an error event on the
\* open stream.
ErrorAnswered ==
    /\ last.route = "thrown"
    /\ last' = IF last.mode = "deep"
               THEN [last EXCEPT !.route = "answered", !.code = 200, !.error = "error event"]
               ELSE [last EXCEPT !.route = "answered", !.code = errorStatus(last.err),
                                 !.error = IF errorStatus(last.err) = 500
                                           THEN "internal_error" ELSE "request_error"]
    /\ UNCHANGED <<sessions, nextId, phases, reports, errors, store, now, req, arrivals,
                   faults, completedAt, windows, seen, log>>

NextLlm == chatCompletionFails \/ chatCompletionReturns \/ ErrorAnswered

SpecLlm == InitLlm /\ [][NextLlm]_vars

\* ------------------------------------------- what the pipelines compute
\* The total tokens an LLM call reports.
TokenCounts == {1, 2}

RECURSIVE SeqsUpTo(_, _)
SeqsUpTo(S, n) ==
    IF n = 0 THEN {<<>>}
    ELSE SeqsUpTo(S, n - 1) \cup {Append(q, x) : q \in SeqsUpTo(S, n - 1), x \in S}

\* What searchWeb returns: a list of results, each known by its URL.
SearchResults == SeqsUpTo({"u1", "u2"}, MaxResults)
\* How one request to the search service ends: with results, or without an
\* API key, by the 15 s timeout, with a non-2xx status, by a network error.
SearchOutcomes ==
    {[how |-> "ok", results |-> rs] : rs \in SearchResults}
    \cup {[how |-> h, results |-> <<>>] : h \in {"nokey", "timeout", "status", "network"}}

\* searchWeb: the mapped results, [] on every failure; it never throws.
searchWeb(o) == IF o.how = "ok" THEN o.results ELSE <<>>

\* Only the searches that found something are kept.
searchMultiple_fulfilledOnly(outs) ==
    LET RECURSIVE kept(_)
        kept(os) == IF os = <<>> THEN <<>>
                    ELSE IF Head(os).how = "ok" THEN <<searchWeb(Head(os))>> \o kept(Tail(os))
                    ELSE kept(Tail(os))
    IN  kept(outs)

\* searchMultiple: one entry per query, in the order of the queries.
searchMultiple(outs) == [i \in 1..Len(outs) |-> searchWeb(outs[i])]

\* The outcomes of the searches of phase 2, the search of the query first.
SearchRuns == SeqsUpTo(SearchOutcomes, MaxBatches) \ {<<>>}
\* What searchMultiple returns: one list per search query, the query first.
SearchBatches == {searchMultiple(outs) : outs \in SearchRuns}

\* The results of the batches in the order the loops visit them.
RECURSIVE results(_)
results(batches) ==
    IF batches = <<>> THEN <<>>
    ELSE results(SubSeq(batches, 1, Len(batches) - 1)) \o batches[Len(batches)]

\* A loop that pushes every result.
dedupe_none(rs) == rs

\* seenUrls: a result is pushed unless its URL has been seen.
RECURSIVE dedupe(_)
dedupe(rs) ==
    IF rs = <<>> THEN <<>>
    ELSE LET front == dedupe(SubSeq(rs, 1, Len(rs) - 1))
             r == rs[Len(rs)]
         IN  IF \E i \in 1..Len(front) : front[i] = r THEN front ELSE Append(front, r)

\* sources.map((s, i) => ({id: i + 1, url: s.url, ...}))
cite(sources) == [i \in 1..Len(sources) |-> [id |-> i, url |-> sources[i]]]

\* A pipeline is called; nothing has been computed yet.
InitDeep ==
    /\ Quiet(0)
    /\ \E mode \in {"standard", "deep"} :
         last = [route |-> mode, code |-> 0, ph |-> 1, batches |-> <<>>, sources |-> <<>>,
                 ins |-> FALSE, val |-> FALSE, total |-> 0, calls |-> 0, rows |-> <<>>,
                 prompt |-> {}, citations |-> <<>>, outs |-> <<>>]

\* executeDeep, one phase with what it computes: the tokens t its LLM call
\* reports when it makes one, the batches the searches of phase 2 return,
\* (outs: how each search ended),
\* whether the content of the extraction or validation is non-empty.  A phase
\* row is its name, its tokens_used and, for reference, the tokens the LLM
\* call of the phase reported (0 without a call).  ph = 7: returned.
DeepPhase ==
    /\ last.route = "deep"
    /\ last.ph \in 1..6
    /\ \E t \in TokenCounts,
          outs \in IF last.ph = 2 THEN SearchRuns ELSE {<<>>},
          nonEmpty \in IF last.ph \in {3, 4} THEN BOOLEAN ELSE {TRUE} :
         LET k == last.ph
             found == searchMultiple(outs)
             call == CallsLlm(k, [srcs |-> Len(last.sources), ins |-> last.ins])
             spent == IF call THEN t ELSE 0
             total == last.total + spent
             tokensUsed == CASE k = 1 -> t
                             [] k = 3 -> total
                             [] k = 5 -> t
                             [] OTHER -> 0
         IN  last' = [last EXCEPT
                 !.ph = k + 1,
                 !.total = total,
                 !.calls = IF call THEN @ + 1 ELSE @,
                 !.batches = IF k = 2 THEN found ELSE @,
                 !.outs = IF k = 2 THEN outs ELSE @,
                 !.sources = IF k = 2 THEN dedupe(results(found)) ELSE @,
                 !.ins = IF k = 3 /\ call THEN nonEmpty ELSE @,
                 !.val = IF k = 4 /\ call THEN nonEmpty ELSE @,
                 !.rows = Append(@, [name |-> PhaseName[k], tokensUsed |-> tokensUsed,
                                     spent |-> spent]),
                 !.prompt = IF k = 5
                            THEN {"query", "analysis"}
                                 \cup (IF last.ins THEN {"insights"} ELSE {})
                                 \cup (IF last.val THEN {"validation"} ELSE {})
                                 \cup (IF Len(last.sources) > 0 THEN {"sources"} ELSE {})
                            ELSE @,
                 !.citations = IF k = 6 THEN cite(last.sources) ELSE @]
    /\ UNCHANGED <<sessions, nextId, phases, reports, errors, store, now, req, arrivals,
                   faults, completedAt, windows, seen, log>>

\* executeStandard with what it computes: one search, one LLM call.
StandardRun ==
    /\ last.route = "standard"
    /\ last.ph = 1
    /\ \E t \in TokenCounts, o \in SearchOutcomes :
       LET found == searchWeb(o) IN
         last' = [last EXCEPT
             !.ph = 7, !.total = t, !.calls = 1, !.batches = <<found>>, !.sources = found,
             !.outs = <<o>>,
             !.rows = <<[name |-> "source_discovery", tokensUsed |-> 0, spent |-> 0],
                        [name |-> "structured_synthesis", tokensUsed |-> t, spent |-> t]>>,
             !.prompt = {"query"} \cup (IF Len(found) > 0 THEN {"sources"} ELSE {}),
             !.citations = cite(found)]
    /\ UNCHANGED <<sessions, nextId, phases, reports, errors, store, now, req, arrivals,
                   faults, completedAt, windows, seen, log>>

SpecDeep == InitDeep /\ [][DeepPhase \/ StandardRun]_vars

\* ------------------------------------------- the query-analysis content
\* The value of analysis.subQuestions: undefined when the key is absent (or
\* the analysis is not an object), else what the JSON holds.  A string and a
\* list have items (characters, sub-questions).
SubQuestionValues ==
    {[type |-> t, items |-> <<>>] : t \in {"undefined", "null", "zero", "number", "true"}}
    \cup {[type |-> "string", items |-> cs] : cs \in {<<>>, <<"a", "b", "c", "d">>}}
    \cup {[type |-> "list", items |-> [i \in 1..n |-> i]] : n \in 0..MaxSubQuestions}

\* The content of the analysis call: text that JSON.parse rejects (the empty
\* content among it), or the JSON value it parses to.
AnalysisContents ==
    {[json |-> j, sub |-> [type |-> "undefined", items |-> <<>>]] :
        j \in {"invalid", "null", "number", "string", "array"}}
    \cup {[json |-> "object", sub |-> v] : v \in SubQuestionValues}

\* The analysis call has returned content for the query.
InitAnalysis ==
    /\ Quiet(0)
    /\ \E content \in AnalysisContents, query \in {"q1", "q2", "q3"} :
         last = [route |-> "analysis", code |-> 0, ph |-> "returned", query |-> query,
                 content |-> content, analysis |-> content, error |-> "none",
                 searchQueries |-> <<>>]

\* try { analysis = JSON.parse(content) } catch { analysis = fallback }
analysisParsed ==
    /\ last.route = "analysis"
    /\ last.ph = "returned"
    /\ last' = [last EXCEPT
           !.ph = "parsed",
           !.analysis = IF last.content.json = "invalid"
                        THEN [json |-> "object",
                              sub |-> [type |-> "list", items |-> <<last.query>>]]
                        ELSE last.content]
    /\ UNCHANGED <<sessions, nextId, phases, reports, errors, store, now, req, arrivals,
                   faults, completedAt, windows, seen, log>>

\* The phase row is inserted (JSON.stringify(analysis)) and the exit event
\* emitted: analysis.subQuestions?.length reads a property of analysis, which
\* throws a TypeError when analysis is null.
analysisEmitted ==
    /\ last.route = "analysis"
    /\ last.ph = "parsed"
    /\ last' = IF last.analysis.json = "null"
               THEN [last EXCEPT !.ph = "threw", !.error = "TypeError"]
               ELSE [last EXCEPT !.ph = "emitted"]
    /\ UNCHANGED <<sessions, nextId, phases, reports, errors, store, now, req, arrivals,
                   faults, completedAt, windows, seen, log>>

\* [query, ...(analysis.subQuestions || []).slice(0, 3)]: a falsy value gives
\* []; a number, true or an object has no slice, which throws a TypeError;
\* a string is sliced and spread into its characters.
searchQueriesBuilt ==
    /\ last.route = "analysis"
    /\ last.ph = "emitted"
    /\ LET sub == last.analysis.sub
           falsy == \/ sub.type \in {"undefined", "null", "zero"}
                    \/ sub.type = "string" /\ sub.items = <<>>
           sliced == SubSeq(sub.items, 1, IF Len(sub.items) < 3 THEN Len(sub.items) ELSE 3)
       IN  last' = IF falsy
                   THEN [last EXCEPT !.ph = "searching", !.searchQueries = <<last.query>>]
                   ELSE IF sub.type \in {"number", "true"}
                   THEN [last EXCEPT !.ph = "threw", !.error = "TypeError"]
                   ELSE [last EXCEPT !.ph = "searching",
                                     !.searchQueries = <<last.query>> \o sliced]
    /\ UNCHANGED <<sessions, nextId, phases, reports, errors, store, now, req, arrivals,
                   faults, completedAt, windows, seen, log>>

SpecAnalysis == InitAnalysis /\ [][analysisParsed \/ analysisEmitted \/ searchQueriesBuilt]_vars

\* ------------------------------------------------------------ properties
Terminal == {"completed", "failed"}

\* C1: a session whose status is completed or failed never changes status
\* again, whatever requests follow (a deleted session has no status).
C1_TerminalIsFinal ==
    [][\A s \in SessionIds :
         (sessions[s].status \in Terminal /\ sessions'[s].status # "absent")
            => sessions'[s].status = sessions[s].status]_vars

\* C2: in every reachable state each session has at most one Report row, and
\* a completed session has exactly one.
C2_OneReportPerSession ==
    \A s \in SessionIds :
        /\ Len(reports[s]) <= 1
        /\ sessions[s].status = "completed" => Len(reports[s]) = 1

\* C3: in every reachable state a failed session has no Report row and has at
\* least one ErrorEntry under its id.
C3_FailedHasErrorNoReport ==
    \A s \in SessionIds :
        sessions[s].status = "failed" => reports[s] = <<>> /\ errors[s] >= 1

\* A request whose pipeline failed for the session it created or ran: a POST
\* answered 500 after its session INSERT, a stream that sent the error event.
PipelineFailed(r) ==
    /\ r.pc = "done"
    /\ r.sid # NoSession
    /\ \/ r.kind = "post" /\ r.resp = "error500"
       \/ r.kind = "stream" /\ r.wire # <<>> /\ r.wire[Len(r.wire)][1] = "error"

\* C4: when the pipeline of a created session has failed, in any mode, the
\* session (while it exists) is failed, not running, and an ErrorEntry carries
\* its id.
C4_FailureIsRecorded ==
    \A h \in Handlers :
        (PipelineFailed(req[h]) /\ Exists(req[h].sid))
            => /\ sessions[req[h].sid].status # "running"
               /\ errors[req[h].sid] >= 1

\* C5: once the client of an open stream has closed the connection, no step of
\* that stream's handler writes a Report row for the session or moves it to
\* completed.
C5_NoWriteAfterDisconnect ==
    [][\A h \in Handlers :
         (/\ req[h].kind = "stream"
          /\ req[h].aborted
          /\ req[h].pc # "done"
          /\ req'[h] # req[h])
            => /\ reports'[req[h].sid] = reports[req[h].sid]
               /\ sessions'[req[h].sid].status = "completed"
                    => sessions[req[h].sid].status = "completed"]_vars

\* The events of a wire that are terminal.
Terminals(wire) == {i \in 1..Len(wire) : wire[i][1] \in {"complete", "error"}}

\* C6: when the handler of a stream whose client stayed connected has
\* returned, the wire carries exactly one terminal event, it is the last
\* event, and the response has been ended.
C6_OneTerminalEventLast ==
    \A h \in Handlers :
        (/\ req[h].kind = "stream"
         /\ req[h].pc = "done"
         /\ req[h].wire # <<>>
         /\ ~req[h].aborted)
            => /\ Terminals(req[h].wire) = {Len(req[h].wire)}
               /\ req[h].ended

\* The key a POST body is looked up under: the trimmed query and the mode.
BodyKey(raw, mode) == <<Trim(raw), IF mode = "" THEN "standard" ELSE mode>>

\* An entry is expired once the clock has passed its expiry.
Live(k) == store[k] # NoEntry /\ ~(now > store[k].expiresAt)
Expired(k) == store[k] # NoEntry /\ now > store[k].expiresAt

\* C7: a POST that finds an unexpired entry for (trimmed query, mode) answers
\* the cached payload with fromCache=true at once, inserts no session, phase,
\* report or error row, makes no LLM or search call and leaves the cache as
\* it was.
C7_CacheHitChangesNothing ==
    [][\A h \in Handlers, raw \in RawQueries, mode \in RawModes :
         (PostStart(h, raw, mode) /\ Live(BodyKey(raw, mode)))
            => /\ req'[h].pc = "done"
               /\ req'[h].resp = "cached"
               /\ req'[h].data = store[BodyKey(raw, mode)].data
               /\ req'[h].llm = 0 /\ req'[h].srch = 0
               /\ UNCHANGED <<sessions, nextId, phases, reports, errors, store>>]_vars

\* A POST has been answered from an entry that is still in the cache.
C7_Witness ==
    \E h \in Handlers :
        /\ req[h].kind = "post" /\ req[h].resp = "cached"
        /\ store[<<req[h].q, req[h].m>>].data = req[h].data

\* C8: after a run for (query, mode) has completed and been cached, a POST with
\* the same query and mode that arrives before the TTL of the mode has elapsed
\* is answered from the cache, and the session rows are the same after it.
C8_RepeatIsServedFromCache ==
    [][\A h \in Handlers, raw \in RawQueries, mode \in RawModes :
         (/\ PostStart(h, raw, mode)
          /\ completedAt[BodyKey(raw, mode)] >= 0
          /\ now < completedAt[BodyKey(raw, mode)] + TTL(BodyKey(raw, mode)[2]))
            => /\ req'[h].resp = "cached"
               /\ req'[h].data.sessionId # NoSession
               /\ sessions' = sessions /\ nextId' = nextId]_vars

\* A deep POST has been answered with what a stream stored on completing.
C8_Witness ==
    \E h \in Handlers :
        /\ req[h].kind = "post" /\ req[h].resp = "cached" /\ req[h].m = "deep"
        /\ sessions[req[h].data.sessionId].status = "completed"
        /\ now > completedAt[<<req[h].q, "deep">>]

\* The TTLs in minutes: quick 15, standard 20, deep 30.
StatedTTL(mode) ==
    CASE mode = "quick" -> 15 [] mode = "standard" -> 20 [] mode = "deep" -> 30

\* C9: an entry enters the cache only as the payload of the request that
\* completes in that step, with expiry now + TTL of its mode (15, 20, 30
\* minutes); from then on it changes only by leaving after its expiry, and a
\* POST for its key before the expiry gets that payload and leaves the entry,
\* expiry included, as it was.
C9_EntryServedUntilExpiry ==
    [][/\ \A k \in Keys :
            store'[k] # store[k] =>
                \/ /\ store'[k].expiresAt = now + StatedTTL(k[2])
                   /\ \E h \in Handlers :
                        /\ req[h].pc \in {"p_upd", "t_upd"} /\ req'[h].pc = "done"
                        /\ k = <<req[h].q, req[h].m>>
                        /\ store'[k].data = [sessionId |-> req[h].sid, report |-> req[h].rid]
                \/ store'[k] = NoEntry /\ now > store[k].expiresAt
       /\ \A h \in Handlers, raw \in RawQueries, mode \in RawModes :
            (/\ PostStart(h, raw, mode)
             /\ store[BodyKey(raw, mode)] # NoEntry
             /\ now < store[BodyKey(raw, mode)].expiresAt)
                => /\ req'[h].data = store[BodyKey(raw, mode)].data
                   /\ store'[BodyKey(raw, mode)] = store[BodyKey(raw, mode)]]_vars

\* A standard entry stored earlier has been read before its expiry.
C9_Witness ==
    \E h \in Handlers :
        /\ req[h].kind = "post" /\ req[h].resp = "cached" /\ req[h].m = "standard"
        /\ store[<<req[h].q, "standard">>].expiresAt = completedAt[<<req[h].q, "standard">>] + 20
        /\ now > completedAt[<<req[h].q, "standard">>]
        /\ now < store[<<req[h].q, "standard">>].expiresAt

\* C10: a POST that finds an expired entry removes it and is not answered from
\* the cache; a sweep removes exactly the expired entries.
C10_ExpiredNeverServed ==
    [][/\ \A h \in Handlers, raw \in RawQueries, mode \in RawModes :
            (PostStart(h, raw, mode) /\ Expired(BodyKey(raw, mode)))
                => /\ req'[h].resp # "cached"
                   /\ req'[h].data = NoData
                   /\ store'[BodyKey(raw, mode)] = NoEntry
       /\ Cleanup =>
            \A k \in Keys : store'[k] = IF Expired(k) THEN NoEntry ELSE store[k]]_vars

\* A POST has missed on a key that was cached earlier, and the entry is gone.
C10_Witness ==
    \E h \in Handlers :
        /\ req[h].kind = "post" /\ req[h].pc = "p_ins"
        /\ completedAt[<<req[h].q, req[h].m>>] >= 0
        /\ store[<<req[h].q, req[h].m>>] = NoEntry

\* The requests of ip that the limiter under test admitted at a time in
\* [t, t + ProbeWindow).
AdmittedIn(ip, t) ==
    {i \in DOMAIN log : /\ log[i].ip = ip /\ log[i].pass
                        /\ t <= log[i].at /\ log[i].at < t + ProbeWindow}

\* C11: for one address, no interval of length windowMs, whatever its start,
\* holds more than maxRequests admitted requests.
C11_RollingWindowBound ==
    \A ip \in Addresses, t \in 0..MaxMinutes :
        Cardinality(AdmittedIn(ip, t)) <= ProbeMax

\* C12: a request that arrives more than windowMs after the start of the
\* address's window is admitted, and the window restarts at its arrival with
\* the counter at 1.
C12_ExpiredWindowRestarts ==
    [][\A ip \in Addresses :
         (/\ Probe(ip)
          /\ windows[ip] # NoRecord
          /\ now - windows[ip].start > ProbeWindow)
            => /\ last'.code = 200
               /\ log'[Len(log')].pass
               /\ windows'[ip] = [count |-> 1, start |-> now]]_vars

\* A window that held a 429 has been restarted by a later request.
C12_Witness ==
    \E ip \in Addresses :
        /\ windows[ip] = [count |-> 1, start |-> now]
        /\ log # <<>> /\ log[Len(log)] = [ip |-> ip, at |-> now, pass |-> TRUE]
        /\ \E i \in DOMAIN log : log[i].ip = ip /\ ~log[i].pass /\ log[i].at < now

\* C15: a body is accepted exactly when its query is a string whose trimmed
\* length is in [3, 2000] and that matches none of the patterns, and its mode
\* is omitted or one of quick, standard, deep; every other body gets 400; the
\* accepted body carries the trimmed query, and standard for an omitted mode.
C15_ValidationIsExact ==
    last.route = "validated" =>
        LET query == last.in.query
            mode == last.in.mode
            trimmed == Trim(query.chars)
            good == /\ query.type = "string"
                    /\ Len(trimmed) >= 3 /\ Len(trimmed) <= 2000
                    /\ ~MatchesScript(trimmed)
                    /\ ~MatchesJavascript(trimmed)
                    /\ ~MatchesHandler(trimmed)
                    /\ \/ mode.type = "undefined"
                       \/ mode.type = "string" /\ mode.text \in {"quick", "standard", "deep"}
        IN  IF good
            THEN /\ last.code = 200
                 /\ last.out.query = trimmed
                 /\ last.out.mode = IF mode.type = "undefined" THEN "standard" ELSE mode.text
            ELSE last.code = 400

\* C13: a POST /research is answered 429 only when more than 20 POSTs to
\* /research are in the window, and a history request only when more than 60
\* history requests are: the other routes do not use up a route's quota.
C13_QuotasAreSeparate ==
    /\ (last.route = "post" /\ last.code = 429) => seen["post"] > 20
    /\ (last.route = "history" /\ last.code = 429) => seen["history"] > 60

\* C14: a POST /research answered 429 or 400 leaves the tables and the cache
\* as they were and starts no handler, so no LLM or search call is made.
C14_RejectedPostHasNoEffect ==
    [][\A h \in Handlers, query \in ClientQueries, mode \in ClientModes :
         (PostResearch(h, query, mode) /\ last'.code \in {429, 400})
            => UNCHANGED <<sessions, nextId, phases, reports, errors, store, req,
                           completedAt>>]_vars

\* A POST has been answered 429 while an earlier, admitted POST stands in its
\* handler.
C14_Witness ==
    /\ last = [route |-> "post", code |-> 429]
    /\ \E h \in Handlers : req[h].pc = "p_ins"

\* C16: GET /history answers with limit = the requested limit clamped to
\* 1..100 (50 when absent) and offset = the larger of the requested offset and
\* 0 (0 when absent); so limit=0 gives 1, limit=500 gives 100, offset=-5 gives 0.
C16_PageIsClamped ==
    last.route = "paged" =>
        /\ last.out.limit = (IF ~last.asked.limit.given THEN 50
                             ELSE IF last.asked.limit.n < 1 THEN 1
                             ELSE IF last.asked.limit.n > 100 THEN 100
                             ELSE last.asked.limit.n)
        /\ last.out.offset = (IF ~last.asked.offset.given \/ last.asked.offset.n < 0 THEN 0
                              ELSE last.asked.offset.n)

\* The progress values of the phase events of a wire, in order.
ProgressOf(wire) ==
    LET ps == SelectSeq(wire, LAMBDA e : e[1] = "phase")
    IN  [i \in 1..Len(ps) |-> ps[i][2]]

\* C17: a client that stayed connected to the stream of a session until the
\* complete event has received phase events with the progress values 5, 15,
\* 20, 30, 35, 50, 55, 65, 70, 85, 90, 100 and no others, then exactly one
\* complete event, and the session row is completed.
C17_ProgressSequence ==
    \A h \in Handlers :
        (/\ req[h].kind = "stream"
         /\ req[h].pc = "done"
         /\ ~req[h].aborted
         /\ req[h].wire # <<>>
         /\ req[h].wire[Len(req[h].wire)][1] = "complete")
            => /\ ProgressOf(req[h].wire) = <<5, 15, 20, 30, 35, 50, 55, 65, 70, 85, 90, 100>>
               /\ Len(req[h].wire) = 13
               /\ sessions[req[h].sid].status = "completed"

\* The phase sequences stated for a deep session: phases 3 and 4 may be
\* missing.
StatedDeepPhases ==
    {<<PhaseName[1], PhaseName[2]>> \o mid \o <<PhaseName[5], PhaseName[6]>> :
        mid \in {<<>>, <<PhaseName[3]>>, <<PhaseName[4]>>, <<PhaseName[3], PhaseName[4]>>}}

\* C18: the phase rows of a completed deep session are, in insertion order,
\* query_analysis, source_discovery, content_extraction (optional),
\* cross_validation (optional), structured_synthesis, citation_linking, each
\* at most once and no others.
C18_DeepPhasesOnce ==
    \A s \in SessionIds :
        (sessions[s].mode = "deep" /\ sessions[s].status = "completed")
            => phases[s] \in StatedDeepPhases

IsPrefix(a, b) == Len(a) <= Len(b) /\ a = SubSeq(b, 1, Len(a))

\* C19: the phase rows of a quick session are never other than
\* [quick_synthesis] and those of a standard session never other than
\* [source_discovery, structured_synthesis]: at any time they are a prefix of
\* that list, and the whole list once the session is completed.
C19_QuickStandardPhases ==
    \A s \in SessionIds :
        /\ sessions[s].mode = "quick" =>
              /\ IsPrefix(phases[s], <<"quick_synthesis">>)
              /\ sessions[s].status = "completed" => phases[s] = <<"quick_synthesis">>
        /\ sessions[s].mode = "standard" =>
              /\ IsPrefix(phases[s], <<"source_discovery", "structured_synthesis">>)
              /\ sessions[s].status = "completed"
                    => phases[s] = <<"source_discovery", "structured_synthesis">>

\* A request whose client has been handed the result of the run it waited
\* for: the POST response of a quick or standard run, the complete event.
Delivered(r) ==
    \/ r.kind = "post" /\ r.resp = "result"
    \/ /\ r.kind = "stream" /\ r.pc = "done"
       /\ r.wire # <<>> /\ r.wire[Len(r.wire)][1] = "complete"

\* C20: the report (content and citations) delivered on completion is the
\* report a GET /research/:id of the same session returns afterwards.
C20_RoundTrip ==
    \A h \in Handlers :
        (Delivered(req[h]) /\ Exists(req[h].sid))
            => /\ getResearch(req[h].sid).code = 200
               /\ getResearch(req[h].sid).report = req[h].data.report

\* C21: a DELETE /history/:id answered {deleted: true} leaves no phase or
\* report row of the session, keeps its error-log rows under the null id, and
\* GET /research/:id answers 404; a session once deleted stays absent with no
\* rows whatever the pipelines still in flight for it do; a DELETE answered
\* 404 changes no table and no cache entry.
C21_DeleteIsFinal ==
    [][/\ \A h \in Handlers, id \in SessionIds :
            (DeleteHistory(h, id) /\ req'[h].resp = "deleted")
               => /\ getResearch(id)'.code = 404
                  /\ phases'[id] = <<>> /\ reports'[id] = <<>>
                  /\ errors'[id] = 0
                  /\ errors'[NoSession] = errors[NoSession] + errors[id]
       /\ \A id \in SessionIds :
            (id < nextId /\ ~Exists(id))
               => /\ getResearch(id)'.code = 404
                  /\ phases'[id] = <<>> /\ reports'[id] = <<>> /\ errors'[id] = 0
       /\ \A h \in Handlers, id \in SessionIds :
            (DeleteHistory(h, id) /\ req'[h].resp = "notfound")
               => UNCHANGED <<sessions, phases, reports, errors, store>>]_vars

\* A session has been deleted under a POST that had saved its report and
\* whose status UPDATE is still to come.
C21_Witness ==
    \E h, g \in Handlers :
        /\ req[h].kind = "delete" /\ req[h].resp = "deleted"
        /\ req[g].kind = "post" /\ req[g].sid = req[h].sid
        /\ req[g].pc = "p_upd"

\* C22: when chatCompletion has failed after its retries, a quick or standard
\* POST is answered 500 with error "internal_error" whatever status the
\* provider's error carries, and a deep stream carries an error event.
C22_LlmFailureIs500 ==
    (last.route = "answered" /\ last.attempt = MaxRetries)
        => IF last.mode = "deep" THEN last.error = "error event"
           ELSE last.code = 500 /\ last.error = "internal_error"

\* C23: once the client of a stream has closed the connection, the handler of
\* that stream issues no further LLM or search call.
C23_NoCallAfterClose ==
    [][\A h \in Handlers :
         (req[h].kind = "stream" /\ req[h].aborted /\ req'[h].rid = req[h].rid)
            => req'[h].llm = req[h].llm /\ req'[h].srch = req[h].srch]_vars

\* C24: after the client of a stream has disconnected, what the handler of
\* that stream goes on to do leaves the status of its session as it is,
\* whether the pipeline succeeds or throws.
C24_StatusAfterDisconnect ==
    [][(req[1].kind = "stream" /\ req[1].aborted /\ req'[1].rid = req[1].rid
        /\ Exists(req[1].sid))
            => sessions'[req[1].sid].status = sessions[req[1].sid].status]_vars

\* C25: POSTs do not wait for one another: every POST that misses the cache
\* gets a session row of its own, and a POST that completes stores its own
\* payload under the key, in place of whatever an identical POST that
\* completed before it had stored.
C25_NoSingleFlight ==
    [][/\ \A h, g \in Handlers :
            (/\ h # g
             /\ req'[h].kind = "post" /\ req'[g].kind = "post"
             /\ req'[h].sid # NoSession /\ req'[g].sid # NoSession)
                => req'[h].sid # req'[g].sid
       /\ \A h \in Handlers :
            (PostComplete(h) /\ req'[h].resp = "result")
                => /\ req'[h].data = [sessionId |-> req[h].sid, report |-> req[h].rid]
                   /\ store'[<<req[h].q, req[h].m>>].data = req'[h].data]_vars

\* Two POSTs with the same query and mode have both run their pipelines to
\* the end, each for its own session, and the cache holds the payload of one;
\* no time has passed, so neither found an entry of the other expired.
C25_Witness ==
    \E h, g \in Handlers :
        /\ h # g
        /\ req[h].kind = "post" /\ req[h].resp = "result"
        /\ req[g].kind = "post" /\ req[g].resp = "result"
        /\ req[h].q = req[g].q /\ req[h].m = req[g].m
        /\ req[h].sid # req[g].sid
        /\ sessions[req[h].sid].status = "completed"
        /\ sessions[req[g].sid].status = "completed"
        /\ store[<<req[h].q, req[h].m>>].data = req[h].data
        /\ now = 0

\* C26: when every search of a deep run has returned an empty list, the run
\* still returns: the extraction and validation calls are skipped, two LLM
\* calls have been made, the synthesis prompt has no source list and the
\* citations are the empty list.
C26_NoSourcesStillCompletes ==
    (/\ last.route = "deep" /\ last.ph = 7
     /\ \A b \in 1..Len(last.batches) : last.batches[b] = <<>>)
        => /\ last.calls = 2
           /\ last.rows[3].spent = 0 /\ last.rows[4].spent = 0
           /\ last.rows[1].spent > 0 /\ last.rows[5].spent > 0
           /\ "sources" \notin last.prompt
           /\ last.citations = <<>>

\* A deep run whose two searches both returned nothing has returned.
C26_Witness ==
    /\ last.route = "deep" /\ last.ph = 7
    /\ last.batches = <<<<>>, <<>>>>

\* C28: every phase row records as tokensUsed the total tokens of the LLM
\* call made in its phase, so that the tokensUsed of the rows of a finished
\* run add up to the run's total tokens.
C28_RowsRecordTokens ==
    last.route \in {"deep", "standard"}
        => /\ \A i \in 1..Len(last.rows) : last.rows[i].tokensUsed = last.rows[i].spent
           /\ last.ph = 7 =>
                LET sum[i \in 0..Len(last.rows)] ==
                        IF i = 0 THEN 0 ELSE sum[i - 1] + last.rows[i].tokensUsed
                IN  sum[Len(last.rows)] = last.total

\* C29: the row of a phase that made no LLM call has tokensUsed = 0: the rows
\* of source_discovery and citation_linking always, of content_extraction
\* without sources, of cross_validation without extracted insights.
C29_NoCallNoTokens ==
    last.route \in {"deep", "standard"}
        => \A i \in 1..Len(last.rows) :
              last.rows[i].spent = 0 => last.rows[i].tokensUsed = 0

\* C30: the citations of a standard or deep result have the ids 1..N in
\* order; the deep citations are the URLs of the search results in batch
\* order, each at its first occurrence only, so no two share a URL.
C30_CitationsNumberedAndUnique ==
    (last.route \in {"deep", "standard"} /\ last.ph = 7)
        => LET c == last.citations
               rs == results(last.batches)
               First(u) == CHOOSE i \in 1..Len(rs) :
                              rs[i] = u /\ \A j \in 1..(i - 1) : rs[j] # u
           IN  /\ \A i \in 1..Len(c) : c[i].id = i
               /\ {c[i].url : i \in 1..Len(c)} = {rs[i] : i \in 1..Len(rs)}
               /\ last.route = "deep" =>
                     /\ \A i, j \in 1..Len(c) : i # j => c[i].url # c[j].url
                     /\ \A i, j \in 1..Len(c) : i < j => First(c[i].url) < First(c[j].url)

\* A deep run has returned two citations after searches that found the
\* same URL twice.
C30_Witness ==
    /\ last.route = "deep" /\ last.ph = 7
    /\ last.batches = <<<<"u1", "u2">>, <<"u2", "u1">>>>
    /\ Len(last.citations) = 2

\* C27: the phase rows of a deep session are written in strictly increasing
\* pipeline order, and once the session has been marked completed or failed
\* no further phase row is written for it, whatever requests are addressed
\* to the session.
C27_PhasesInOrderThenTerminal ==
    [][\A s \in SessionIds :
         LET Index(name) == CHOOSE k \in 1..6 : PhaseName[k] = name
         IN  /\ sessions'[s].mode = "deep" =>
                  \A i \in 1..(Len(phases'[s]) - 1) :
                      Index(phases'[s][i]) < Index(phases'[s][i + 1])
             /\ sessions[s].status \in Terminal =>
                  (phases'[s] = phases[s] \/ phases'[s] = <<>>)]_vars

\* An error the call is stated to retry after: neither a cancellation nor a
\* timeout, nor an answer with status 400, 401 or 403.
PlainFailure(err) == err.cause \in {"http", "network"} /\ err.status \notin {400, 401, 403}

C32_RetryOnlyWhenRetryable ==
    /\ (last.route = "calling" /\ last.attempt > 1)
          => /\ last.err.cause # "cancel"
             /\ last.err.status \notin {400, 401, 403}
    /\ (last.route = "thrown" /\ last.attempt < 3)
          => \/ last.err.cause = "cancel"
             \/ last.err.status \in {400, 401, 403}

\* C33: a search that ends without a key, by timeout, with a non-2xx status
\* or by a network error yields the empty list; the searches of a pipeline
\* yield one list per search in the order of the searches, a failed search
\* leaves the list of every other search as the service returned it, and the
\* source_discovery phase is recorded and the pipeline goes on whatever the
\* searches did.
C33_SearchFailuresAreEmptyLists ==
    (last.route \in {"standard", "deep"} /\ last.outs # <<>>)
        => /\ Len(last.batches) = Len(last.outs)
           /\ \A i \in 1..Len(last.outs) :
                 last.batches[i] = (IF last.outs[i].how = "ok"
                                    THEN last.outs[i].results ELSE <<>>)
           /\ \E n \in 1..Len(last.rows) : last.rows[n].name = "source_discovery"
           /\ last.route = "deep" => last.ph > 2

\* A deep pipeline has returned after its first search timed out and its
\* second found two results.
C33_Witness ==
    /\ last.route = "deep"
    /\ last.ph = 7
    /\ Len(last.outs) = 2
    /\ last.outs[1].how = "timeout"
    /\ last.outs[2].how = "ok"
    /\ last.batches = <<<<>>, <<"u1", "u2">>>>

\* C34: whatever the content of the analysis call, phase 1 raises no error;
\* content that is not JSON is replaced by the fallback analysis, whose only
\* sub-question is the query; and the search queries of phase 2 are the query
\* followed by the first sub-questions of the analysis, at most 3 of them.
C34_AnalysisNeverFails ==
    last.route = "analysis"
        => /\ last.error = "none"
           /\ last.ph # "threw"
           /\ (last.ph # "returned" /\ last.content.json = "invalid")
                 => last.analysis = [json |-> "object",
                                     sub |-> [type |-> "list", items |-> <<last.query>>]]
           /\ last.ph = "searching"
                 => LET subs == IF last.analysis.sub.type = "list"
                                THEN last.analysis.sub.items ELSE <<>>
                    IN  /\ Len(last.searchQueries) <= 4
                        /\ Len(last.searchQueries) = 1 + (IF Len(subs) < 3 THEN Len(subs) ELSE 3)
                        /\ last.searchQueries[1] = last.query
                        /\ \A n \in 2..Len(last.searchQueries) :
                              last.searchQueries[n] = subs[n - 1]

\* C36: a stream request starts the deep pipeline only for a session whose
\* mode is deep and whose status is running; for a quick or standard session
\* and for a failed session no stream handler runs executeDeep, appends a
\* phase row or writes a cache entry.
C36_StreamRunsOnlyRunningDeep ==
    [][\A h \in Handlers :
         /\ \A id \in SessionIds :
               (StreamStart(h, id) /\ req'[h].pc = "d_phase")
                  => sessions[id].mode = "deep" /\ sessions[id].status = "running"
         /\ (req[h].kind = "stream" /\ req[h].sid \in SessionIds
               /\ (ExecuteDeepPhase(h) \/ StreamComplete(h))
               /\ (phases' # phases \/ store' # store))
                  => sessions[req[h].sid].mode = "deep"]_vars

\* The POST handler h answers with a session id in this step.
PostAnswers(h) ==
    /\ req'[h].kind = "post"
    /\ req'[h].resp \in {"cached", "result", "deep"}
    /\ req[h].rid # req'[h].rid \/ req[h].resp = "none"

\* C37: whenever POST /research answers with a sessionId, from the cache
\* included, a session row with that id exists at the time of the answer.
C37_AnsweredSessionExists ==
    [][\A h \in Handlers :
         PostAnswers(h) => sessions'[req'[h].data.sessionId].status # "absent"]_vars

\* C38: when every awaited call eventually returns or fails, every session
\* that is created eventually has status completed or failed (or is deleted).
C38_EverySessionEnds ==
    \A s \in SessionIds :
        (sessions[s].status = "running")
            ~> (sessions[s].status \in Terminal \/ sessions[s].status = "absent")

\* The stream handler r has written the complete event and ended.
CompleteReceived(r) ==
    /\ r.kind = "stream" /\ r.pc = "done"
    /\ r.wire # <<>> /\ r.wire[Len(r.wire)][1] = "complete"

\* C35: a step that writes the exit event of phase k has inserted the row of
\* phase k; a step that writes the complete event leaves a Report row and
\* the status completed; and once a client has received complete, the
\* session shows status completed with a report after every later step.
C35_PersistBeforeNotify ==
    [][\A h \in Handlers :
         /\ (ExecuteDeepPhase(h) /\ Len(req'[h].wire) > Len(req[h].wire))
               => phases'[req[h].sid] = Append(phases[req[h].sid], PhaseName[req[h].ph])
         /\ (StreamComplete(h) /\ CompleteReceived(req'[h]))
               => /\ reports'[req[h].sid] # <<>>
                  /\ sessions'[req[h].sid].status = "completed"
         /\ CompleteReceived(req[h])
               => /\ getResearch(req[h].sid)'.status = "completed"
                  /\ getResearch(req[h].sid)'.report # 0]_vars

====
